---- MODULE Spec2Model ----
(***************************************************************************)
(* Handle lifetime, gradient-mode guard, batching, parameter construction  *)
(* and initializer arithmetic of the gotch host layer:                     *)
(*   tensor/module.go  BatchAccuracyForLogits, BatchAccuracyForLogitsIdx,  *)
(*                     Tensor.ApplyOpt, Tensor.ApplyOptT                   *)
(*   nn/init.go        randnInit, kaimingUniformInit, factorial,           *)
(*                     NewConvTranspose1D/2D/3D                            *)
(* One behaviour is one call of one of these functions (variable op) on    *)
(* inputs drawn in Init, followed step by step through its body.           *)
(***************************************************************************)
EXTENDS Integers, Sequences, FiniteSets

VARIABLES
    op,            \* the function being called
    pc,            \* position inside that function
    \* ---- evaluators (tensor/module.go) ----
    totalSize,     \* xs.MustSize()[0], the leading dimension N
    batchSize,     \* the batchSize argument B
    gradEnabled,   \* process-wide gradient-tracking mode
    gradBefore,    \* the mode that held before the call (history)
    guards,        \* open NoGradGuards, each holding the mode it replaced
    live,          \* number of live Handles the evaluator created, per kind
    sumAccuracy,   \* in units of 1/AccScale
    sampleCount,
    i,             \* loop counter of BatchAccuracyForLogitsIdx
    batchIndex,    \* batchIndex (Idx) / the iterator's position (Iter2)
    ranges,        \* row range [start, end) of every batch produced (history)
    rowsEvaluated, \* rows contained in the batches processed (history)
    weightedSum,   \* sum of accuracy_i * rows_i (history)
    retVal,        \* what the call returned
    \* ---- ApplyOpt / ApplyOptT ----
    hasOpt,        \* len(opts) > 0
    resOf,         \* Handle -> foreign resource it references (0: no Handle)
    resState,      \* foreign resource -> "unalloc" | "live" | "freed"
    dropped,       \* Handles the caller has released
    faults,        \* "double_free" / "use_after_free" events
    \* ---- NewConvTransposeKD ----
    ksLen,         \* len(ksizes)
    cfgBias,       \* cfg.Bias
    params,        \* parameter Handles allocated and not released
    newVarCalls,   \* number of vs.NewVar calls attempted
    failedAt,      \* the step that failed: "none" | "ksize" | "bias" | "weight"
    outcome,       \* "running" | "returned" | "process_exit"
    \* ---- initializers ----
    rank,          \* len(dims)
    fanIn,         \* uint64 as little-endian limbs
    depth,         \* frames of factorial that have returned
    exact,         \* the product without truncation (history)
    bound,         \* the bound handed to Uniform_
    mean, stdev,   \* randnInit fields
    z,             \* the rd.NormFloat64() draw
    data           \* the element value written to data[i]

vars == <<op, pc, totalSize, batchSize, gradEnabled, gradBefore, guards, live,
          sumAccuracy, sampleCount, i, batchIndex, ranges, rowsEvaluated,
          weightedSum, retVal, hasOpt, resOf, resState, dropped, faults,
          ksLen, cfgBias, params, newVarCalls, failedAt, outcome,
          rank, fanIn, depth, exact, bound, mean, stdev, z, data>>

evalVars  == <<totalSize, batchSize, gradEnabled, gradBefore, guards, live,
               sumAccuracy, sampleCount, i, batchIndex, ranges, rowsEvaluated,
               weightedSum, retVal>>
applyVars == <<hasOpt, resOf, resState, dropped, faults>>
convVars  == <<ksLen, cfgBias, params, newVarCalls, failedAt, outcome>>
initVars  == <<rank, fanIn, depth, exact, bound, mean, stdev, z, data>>

\* ------------------------------------------------------------------ bounds
MaxN     == 10   \* leading dimension N ranges over 0..MaxN
MaxB     == 4    \* batch size B ranges over 1..MaxB
AccScale == 2    \* a batch accuracy is a/AccScale, a in 0..AccScale
MaxKs    == 4    \* len(ksizes) ranges over 0..MaxKs
MaxRank  == 67   \* len(dims) ranges over 1..MaxRank
MaxAbs   == 2    \* mean and the normal draw range over -MaxAbs..MaxAbs, stdev over 0..MaxAbs

EvalOps  == {"BatchAccuracyForLogits", "BatchAccuracyForLogitsIdx"}
ApplyOps == {"ApplyOpt", "ApplyOptT"}
ConvOps  == {"NewConvTranspose1D", "NewConvTranspose2D", "NewConvTranspose3D"}
KaimingOps == {"kaimingUniformInit.InitTensor", "kaimingUniformInit.Set"}
RandnOps == {"randnInit.InitTensor", "randnInit.Set"}

\* ------------------------------------------------------- Handles and guards
Kinds    == {"index", "imagesTs", "labelsTs", "viewData", "viewLabel",
             "bImages", "bLabels", "logits", "acc"}
\* the Handles created once per batch iteration
PerBatch == {"viewData", "viewLabel", "bImages", "bLabels", "logits", "acc"}

NoHandles == [k \in Kinds |-> 0]

\* a foreign call that returns a new Handle
Create(l, k)   == [l EXCEPT ![k] = @ + 1]
\* Tensor.MustDrop
MustDrop(l, k) == [l EXCEPT ![k] = @ - 1]
\* Tensor.MustTo(device, del) : new Handle on the device; del releases the receiver
MustTo(l, src, dst, del) == IF del THEN MustDrop(Create(l, dst), src) ELSE Create(l, dst)

\* NewNoGradGuard: remembers the mode in force and switches tracking off
GuardOpen(g)     == Append(g, gradEnabled)
\* NoGradGuard.Drop: restores the mode the guard replaced
GuardRestored(g) == g[Len(g)]
GuardClose(g)    == SubSeq(g, 1, Len(g) - 1)

NoRet == [kind |-> "none", num |-> 0, den |-> 0]
\* float64 division sumAccuracy / sampleCount: 0.0/0.0 is NaN, not an error
FloatDiv(num, den) == IF den = 0 THEN [kind |-> "NaN", num |-> 0, den |-> 0]
                                 ELSE [kind |-> "value", num |-> num, den |-> den]

\* ------------------------------------------------ BatchAccuracyForLogits
\* Iter2.Next: the next full batch of batchSize rows, or not ok
Iter2HasNext == totalSize - batchIndex * batchSize >= batchSize

LogitsStart ==
    /\ op = "BatchAccuracyForLogits" /\ pc = "start"
    /\ guards' = GuardOpen(guards)          \* noGradGuard := NewNoGradGuard()
    /\ gradEnabled' = FALSE
    /\ batchIndex' = 0                      \* MustNewIter2
    /\ pc' = "loop"
    /\ UNCHANGED <<op, totalSize, batchSize, gradBefore, live, sumAccuracy,
                   sampleCount, i, ranges, rowsEvaluated, weightedSum, retVal>>
    /\ UNCHANGED <<applyVars, convVars, initVars>>

\* one iteration of the for loop, lines 71-87
LogitsBatch ==
    /\ op = "BatchAccuracyForLogits" /\ pc = "loop"
    /\ Iter2HasNext
    /\ \E a \in 0..AccScale :
        LET start == batchIndex * batchSize
            size  == batchSize              \* item.Data.MustSize()[0]
            l0 == Create(Create(live, "viewData"), "viewLabel")  \* iter2.Next()
            l1 == MustTo(l0, "viewData", "bImages", TRUE)
            l2 == MustTo(l1, "viewLabel", "bLabels", TRUE)
            l3 == Create(l2, "logits")      \* m.ForwardT(bImages, false)
            l4 == Create(l3, "acc")         \* logits.AccuracyForLogits(bLabels)
            l5 == MustDrop(MustDrop(MustDrop(l4, "bImages"), "bLabels"), "acc")
        IN /\ live' = l5
           /\ sumAccuracy' = sumAccuracy + a * size
           /\ sampleCount' = sampleCount + size
           /\ ranges' = Append(ranges, <<start, start + size>>)
           /\ rowsEvaluated' = rowsEvaluated + size
           /\ weightedSum' = weightedSum + a * size
    /\ batchIndex' = batchIndex + 1
    /\ UNCHANGED <<op, pc, totalSize, batchSize, gradEnabled, gradBefore,
                   guards, i, retVal>>
    /\ UNCHANGED <<applyVars, convVars, initVars>>

\* !ok: break, return sumAccuracy / sampleCount, then the deferred Drop
LogitsReturn ==
    /\ op = "BatchAccuracyForLogits" /\ pc = "loop"
    /\ ~Iter2HasNext
    /\ retVal' = FloatDiv(sumAccuracy, sampleCount)
    /\ gradEnabled' = GuardRestored(guards)
    /\ guards' = GuardClose(guards)
    /\ pc' = "done"
    /\ UNCHANGED <<op, totalSize, batchSize, gradBefore, live, sumAccuracy,
                   sampleCount, i, batchIndex, ranges, rowsEvaluated, weightedSum>>
    /\ UNCHANGED <<applyVars, convVars, initVars>>

\* ---------------------------------------------- BatchAccuracyForLogitsIdx
\* batches := samples / batchSize (Go integer division, operands >= 0)
Batches(samples, bs) == samples \div bs
\* start := batchIndex * batchSize
StartOf(bi, bs) == bi * bs
\* the batch length passed where NewNarrow expects the end row
NarrowEndAsLength(start, size) == size
\* the second argument of NewNarrow(int64(start), int64(start+size))
NarrowEnd(start, size) == start + size
\* Tensor.Idx(NewNarrow(s, e)): the rows s .. e-1 of the leading dimension
NarrowRows(s, e) == IF e > s THEN e - s ELSE 0
\* bSamples := float64(xs.MustSize()[0])
BSamples(xsSize) == xsSize

IdxStart ==
    /\ op = "BatchAccuracyForLogitsIdx" /\ pc = "start"
    /\ guards' = GuardOpen(guards)          \* _ = NewNoGradGuard()
    /\ gradEnabled' = FALSE
    \* index, imagesTs, labelsTs
    /\ live' = Create(Create(Create(live, "index"), "imagesTs"), "labelsTs")
    /\ batchIndex' = 0
    /\ i' = 0
    /\ pc' = "loop"
    /\ UNCHANGED <<op, totalSize, batchSize, gradBefore, sumAccuracy,
                   sampleCount, ranges, rowsEvaluated, weightedSum, retVal>>
    /\ UNCHANGED <<applyVars, convVars, initVars>>

\* the loop body is entered: i < batches and the break at line 118 not taken
IdxEnters ==
    /\ i < Batches(totalSize, batchSize)
    /\ ~(totalSize - StartOf(batchIndex, batchSize) < batchSize)

\* one iteration of the for loop, lines 115-145
IdxBatch ==
    /\ op = "BatchAccuracyForLogitsIdx" /\ pc = "loop"
    /\ IdxEnters
    /\ \E a \in 0..AccScale :
        LET start == StartOf(batchIndex, batchSize)
            size  == batchSize
            end   == NarrowEnd(start, size)
            rows  == NarrowRows(start, end)
            l0 == Create(Create(live, "viewData"), "viewLabel")  \* Idx(narrowIndex)
            l1 == MustTo(l0, "viewData", "bImages", TRUE)
            l2 == MustTo(l1, "viewLabel", "bLabels", TRUE)
            l3 == Create(l2, "logits")      \* m.ForwardT(bImages, true)
            l4 == Create(l3, "acc")         \* logits.AccuracyForLogits(bLabels)
            l5 == MustDrop(MustDrop(MustDrop(l4, "bImages"), "bLabels"), "acc")
            bSamples == BSamples(totalSize)
        IN /\ live' = l5
           /\ sumAccuracy' = sumAccuracy + a * bSamples
           /\ sampleCount' = sampleCount + bSamples
           /\ ranges' = Append(ranges, <<start, end>>)
           /\ rowsEvaluated' = rowsEvaluated + rows
           /\ weightedSum' = weightedSum + a * rows
    /\ batchIndex' = batchIndex + 1
    /\ i' = i + 1
    /\ UNCHANGED <<op, pc, totalSize, batchSize, gradEnabled, gradBefore,
                   guards, retVal>>
    /\ UNCHANGED <<applyVars, convVars, initVars>>

\* loop left; imagesTs and labelsTs dropped; return sumAccuracy / sampleCount.
\* The guard made at line 103 is never dropped.
IdxReturn ==
    /\ op = "BatchAccuracyForLogitsIdx" /\ pc = "loop"
    /\ ~IdxEnters
    /\ live' = MustDrop(MustDrop(live, "imagesTs"), "labelsTs")
    /\ retVal' = FloatDiv(sumAccuracy, sampleCount)
    /\ pc' = "done"
    /\ UNCHANGED <<op, totalSize, batchSize, gradEnabled, gradBefore, guards,
                   sumAccuracy, sampleCount, i, batchIndex, ranges,
                   rowsEvaluated, weightedSum>>
    /\ UNCHANGED <<applyVars, convVars, initVars>>

\* ---------------------------------------------------- ApplyOpt / ApplyOptT
Handles   == {"ts", "ret"}
Resources == 1..2

\* MustShallowClone: a second Handle on the receiver's foreign resource
MustShallowClone(ro) == [ro EXCEPT !["ret"] = ro["ts"]]
\* m.Forward(ts) / m.ForwardT(ts, train): the result is a new foreign resource
Forward(ro, r) == [ro EXCEPT !["ret"] = r]

\* switch { case len(opts) > 0: ... default: return ts.MustShallowClone() }
ApplyResult(ro, opt, r) == IF opt THEN Forward(ro, r) ELSE MustShallowClone(ro)

ApplyCall ==
    /\ op \in ApplyOps /\ pc = "start"
    /\ LET r == CHOOSE x \in Resources : resState[x] = "unalloc"
       IN /\ resOf' = ApplyResult(resOf, hasOpt, r)
          /\ resState' = IF hasOpt THEN [resState EXCEPT ![r] = "live"] ELSE resState
    /\ pc' = "returned"
    /\ UNCHANGED <<op, hasOpt, dropped, faults>>
    /\ UNCHANGED <<evalVars, convVars, initVars>>

\* the caller releases a Handle it holds, once
CallerDrop(h) ==
    /\ op \in ApplyOps /\ pc = "returned"
    /\ h \notin dropped
    /\ dropped' = dropped \cup {h}
    /\ IF resState[resOf[h]] = "freed"
          THEN /\ faults' = faults \cup {"double_free"}
               /\ UNCHANGED resState
          ELSE /\ resState' = [resState EXCEPT ![resOf[h]] = "freed"]
               /\ UNCHANGED faults
    /\ UNCHANGED <<op, pc, hasOpt, resOf>>
    /\ UNCHANGED <<evalVars, convVars, initVars>>

\* the caller reads through a Handle it has not released
CallerUse(h) ==
    /\ op \in ApplyOps /\ pc = "returned"
    /\ h \notin dropped
    /\ resState[resOf[h]] = "freed"
    /\ "use_after_free" \notin faults
    /\ faults' = faults \cup {"use_after_free"}
    /\ UNCHANGED <<op, pc, hasOpt, resOf, resState, dropped>>
    /\ UNCHANGED <<evalVars, convVars, initVars>>

\* ------------------------------------------------- NewConvTranspose1D/2D/3D
\* the rank K each constructor compares len(ksizes) with
KOf(o) == CASE o = "NewConvTranspose1D" -> 1
            [] o = "NewConvTranspose2D" -> 2
            [] o = "NewConvTranspose3D" -> 3

\* a check that only rejects lists longer than K
KsizeTooLong(n, k) == n > k
\* if len(ksizes) != K { log.Fatalf(...) }
KsizeMismatch(n, k) == n # k

\* the check at the top of the constructor; log.Fatalf prints the message and
\* ends the process
ConvCheck ==
    /\ op \in ConvOps /\ pc = "start"
    /\ IF KsizeMismatch(ksLen, KOf(op))
          THEN /\ failedAt' = "ksize"
               /\ outcome' = "process_exit"
               /\ pc' = "exited"
          ELSE /\ UNCHANGED <<failedAt, outcome>>
               /\ pc' = "bias"
    /\ UNCHANGED <<op, ksLen, cfgBias, params, newVarCalls>>
    /\ UNCHANGED <<evalVars, applyVars, initVars>>

\* if cfg.Bias { conv.Bs = vs.NewVar("bias", ...) }
\* vs.NewVar either returns a new parameter Handle or ends the process
ConvBias ==
    /\ op \in ConvOps /\ pc = "bias"
    /\ \/ /\ ~cfgBias
          /\ pc' = "weight"
          /\ UNCHANGED <<params, newVarCalls, failedAt, outcome>>
       \/ /\ cfgBias
          /\ newVarCalls' = newVarCalls + 1
          /\ \E ok \in BOOLEAN :
               IF ok THEN /\ params' = params \cup {"bias"}
                          /\ pc' = "weight"
                          /\ UNCHANGED <<failedAt, outcome>>
                     ELSE /\ failedAt' = "bias"
                          /\ outcome' = "process_exit"
                          /\ pc' = "exited"
                          /\ UNCHANGED params
    /\ UNCHANGED <<op, ksLen, cfgBias>>
    /\ UNCHANGED <<evalVars, applyVars, initVars>>

\* conv.Ws = vs.NewVar("weight", weightSize, cfg.WsInit); return conv
ConvWeight ==
    /\ op \in ConvOps /\ pc = "weight"
    /\ newVarCalls' = newVarCalls + 1
    /\ \E ok \in BOOLEAN :
         IF ok THEN /\ params' = params \cup {"weight"}
                    /\ outcome' = "returned"
                    /\ pc' = "done"
                    /\ UNCHANGED failedAt
               ELSE /\ failedAt' = "weight"
                    /\ outcome' = "process_exit"
                    /\ pc' = "exited"
                    /\ UNCHANGED params
    /\ UNCHANGED <<op, ksLen, cfgBias>>
    /\ UNCHANGED <<evalVars, applyVars, initVars>>

\* ------------------------------------------------------ kaimingUniformInit
\* uint64 values are little-endian sequences of 16-bit limbs
Width    == 64
Base     == 2 ^ 16
U64Limbs == Width \div 16

RECURSIVE MulLimbs(_, _, _, _)
\* x * n truncated to Len(x) limbs (the carry out of the top limb is lost)
MulLimbs(x, n, k, carry) ==
    IF k > Len(x) THEN <<>>
    ELSE LET p == x[k] * n + carry
         IN <<p % Base>> \o MulLimbs(x, n, k + 1, p \div Base)

\* the value 1 in w limbs
One(w) == [k \in 1..w |-> IF k = 1 THEN 1 ELSE 0]
Zero(w) == [k \in 1..w |-> 0]

\* uint64 multiplication by n: the product modulo 2^64
MulU64(x, n) == MulLimbs(x, n, 1, 0)

\* the exact product is kept beside the uint64 one, in limbs wide enough for
\* (MaxRank-1)!
WideLimbs == MaxRank \div 2 + 4

\* bound := math.Sqrt(1.0 / float64(fanIn)): the square root of the reciprocal
\* of fanIn, and +Inf when fanIn is 0
SqrtRecip(f) == IF f = Zero(Len(f)) THEN [inf |-> TRUE, recip |-> f]
                                    ELSE [inf |-> FALSE, recip |-> f]

\* fanIn := factorial(uint64(len(dims) - 1)): the recursion descends to n = 0,
\* where factorial returns 1
FactorialBase ==
    /\ op \in KaimingOps /\ pc = "start"
    /\ fanIn' = One(U64Limbs)
    /\ exact' = One(WideLimbs)
    /\ depth' = 0
    /\ pc' = "unwind"
    /\ UNCHANGED <<op, rank, bound, mean, stdev, z, data>>
    /\ UNCHANGED <<evalVars, applyVars, convVars>>

\* the frame for n = depth+1 returns n * factorial(n-1)
FactorialReturn ==
    /\ op \in KaimingOps /\ pc = "unwind"
    /\ depth < rank - 1
    /\ fanIn' = MulU64(fanIn, depth + 1)
    /\ exact' = MulLimbs(exact, depth + 1, 1, 0)
    /\ depth' = depth + 1
    /\ UNCHANGED <<op, pc, rank, bound, mean, stdev, z, data>>
    /\ UNCHANGED <<evalVars, applyVars, convVars>>

\* InitTensor (lines 150-158) and Set (lines 168-176) compute the same bound
\* from fanIn and hand it to Uniform_(-bound, bound)
KaimingBound ==
    /\ op \in KaimingOps /\ pc = "unwind"
    /\ depth = rank - 1
    /\ bound' = SqrtRecip(fanIn)
    /\ pc' = "done"
    /\ UNCHANGED <<op, rank, fanIn, exact, depth, mean, stdev, z, data>>
    /\ UNCHANGED <<evalVars, applyVars, convVars>>

\* --------------------------------------------------------------- randnInit
\* data[i] = rd.NormFloat64()*r.mean + r.stdev   (line 79 and line 104)
RandnSample(m, s, draw) == draw * m + s

RandnFill ==
    /\ op \in RandnOps /\ pc = "start"
    /\ \E draw \in -MaxAbs..MaxAbs :
         /\ z' = draw
         /\ data' = RandnSample(mean, stdev, draw)
    /\ pc' = "done"
    /\ UNCHANGED <<op, rank, fanIn, depth, exact, bound, mean, stdev>>
    /\ UNCHANGED <<evalVars, applyVars, convVars>>

\* ------------------------------------------------------------ specification
EvalIdle  == /\ totalSize = 0 /\ batchSize = 1
             /\ gradEnabled = TRUE /\ gradBefore = TRUE
ApplyIdle == /\ hasOpt = FALSE
ConvIdle  == /\ ksLen = 0 /\ cfgBias = FALSE
InitIdle  == /\ rank = 1 /\ mean = 0 /\ stdev = 0

Init ==
    /\ pc = "start"
    /\ guards = <<>> /\ live = NoHandles
    /\ sumAccuracy = 0 /\ sampleCount = 0 /\ i = 0 /\ batchIndex = 0
    /\ ranges = <<>> /\ rowsEvaluated = 0 /\ weightedSum = 0 /\ retVal = NoRet
    /\ resOf = [h \in Handles |-> IF h = "ts" THEN 1 ELSE 0]
    /\ resState = [r \in Resources |-> IF r = 1 THEN "live" ELSE "unalloc"]
    /\ dropped = {} /\ faults = {}
    /\ params = {} /\ newVarCalls = 0 /\ failedAt = "none" /\ outcome = "running"
    /\ fanIn = <<>> /\ depth = 0 /\ exact = <<>> /\ bound = [inf |-> FALSE, recip |-> <<>>] /\ z = 0 /\ data = 0
    /\ \/ /\ op \in EvalOps
          /\ totalSize \in 0..MaxN
          /\ batchSize \in 1..MaxB
          /\ gradEnabled \in BOOLEAN
          /\ gradBefore = gradEnabled
          /\ ApplyIdle /\ ConvIdle /\ InitIdle
       \/ /\ op \in ApplyOps
          /\ hasOpt \in BOOLEAN
          /\ EvalIdle /\ ConvIdle /\ InitIdle
       \/ /\ op \in ConvOps
          /\ ksLen \in 0..MaxKs
          /\ cfgBias \in BOOLEAN
          /\ EvalIdle /\ ApplyIdle /\ InitIdle
       \/ /\ op \in KaimingOps
          /\ rank \in 1..MaxRank
          /\ mean = 0 /\ stdev = 0
          /\ EvalIdle /\ ApplyIdle /\ ConvIdle
       \/ /\ op \in RandnOps
          /\ rank = 1
          /\ mean \in -MaxAbs..MaxAbs
          /\ stdev \in 0..MaxAbs
          /\ EvalIdle /\ ApplyIdle /\ ConvIdle

Next ==
    \/ LogitsStart
    \/ LogitsBatch
    \/ LogitsReturn
    \/ IdxStart
    \/ IdxBatch
    \/ IdxReturn
    \/ ApplyCall
    \/ \E h \in Handles : CallerDrop(h)
    \/ \E h \in Handles : CallerUse(h)
    \/ ConvCheck
    \/ ConvBias
    \/ ConvWeight
    \/ FactorialBase
    \/ FactorialReturn
    \/ KaimingBound
    \/ RandnFill

Spec == Init /\ [][Next]_vars

\* ------------------------------------------------------------------- typing
TypeOK ==
    /\ op \in EvalOps \cup ApplyOps \cup ConvOps \cup KaimingOps \cup RandnOps
    /\ pc \in {"start", "loop", "returned", "bias", "weight", "exited", "unwind", "done"}
    /\ totalSize \in Nat /\ batchSize \in Nat \ {0}
    /\ gradEnabled \in BOOLEAN /\ gradBefore \in BOOLEAN
    /\ \A k \in Kinds : live[k] \in Nat
    /\ sumAccuracy \in Nat /\ sampleCount \in Nat
    /\ params \subseteq {"bias", "weight"}
    /\ failedAt \in {"none", "ksize", "bias", "weight"}
    /\ outcome \in {"running", "returned", "process_exit"}
    /\ faults \subseteq {"double_free", "use_after_free"}

\* ------------------------------------------------------------------- claims

\* C1: in both evaluators every per-batch Handle (the batches moved to the
\* device, the logits, the accuracy scalar) has been released whenever the
\* loop is about to pull the next batch and when the call has returned.
C1_TransientsReleased ==
    (op \in EvalOps /\ pc \in {"loop", "done"})
        => \A k \in PerBatch : live[k] = 0

\* C2: when an evaluator has returned, the gradient-tracking mode is the one
\* that held before the call and the guard it opened is closed.
C2_GradModeRestored ==
    (op \in EvalOps /\ pc = "done")
        => (gradEnabled = gradBefore /\ guards = <<>>)

\* C3: an evaluator that processed zero batches reports an error and never
\* returns a computed sumAccuracy / sampleCount.
C3_EmptyInputReported ==
    (op \in EvalOps /\ pc = "done" /\ sampleCount = 0)
        => retVal.kind = "error"

\* C4: sampleCount is the number of rows in the batches processed and
\* sumAccuracy is the sum of accuracy_i * rows_i over those batches.
C4_WeightedByBatchRows ==
    op \in EvalOps
        => (sampleCount = rowsEvaluated /\ sumAccuracy = weightedSum)

\* C5: the drop-partial loop of BatchAccuracyForLogitsIdx produces batch k
\* (0-based) over exactly the rows [k*B, k*B+B), in increasing order, never
\* more than fit in N rows, and has produced exactly floor(N/B) batches when
\* it ends, leaving the last N mod B rows unevaluated.
C5_DropPartialBatches ==
    op = "BatchAccuracyForLogitsIdx" =>
        /\ \A k \in 1..Len(ranges) :
              ranges[k] = <<(k - 1) * batchSize, (k - 1) * batchSize + batchSize>>
        /\ Len(ranges) * batchSize <= totalSize
        /\ rowsEvaluated = Len(ranges) * batchSize
        /\ pc = "done" =>
              /\ totalSize < (Len(ranges) + 1) * batchSize
              /\ totalSize - rowsEvaluated = totalSize % batchSize

C5_Witness ==
    /\ op = "BatchAccuracyForLogitsIdx" /\ pc = "done"
    /\ totalSize = 10 /\ batchSize = 3
    /\ ranges = << <<0, 3>>, <<3, 6>>, <<6, 9>> >>

\* C6: ApplyOpt / ApplyOptT without a module option return a Handle on a new
\* foreign resource, never on the input's, so releasing the input and the
\* result once each releases nothing twice and uses nothing after release.
C6_NoOptIsMaterializingCopy ==
    (op \in ApplyOps /\ ~hasOpt /\ pc = "returned")
        => (resOf["ret"] # resOf["ts"] /\ faults = {})

\* C7: a kernel-size list whose length differs from K is reported before any
\* allocation: no vs.NewVar call is made and no parameter Handle exists on
\* that path, whatever cfg.Bias is.
C7_MismatchBeforeAllocation ==
    (op \in ConvOps /\ ksLen # KOf(op)) =>
        /\ newVarCalls = 0
        /\ params = {}
        /\ pc # "start" => (pc = "exited" /\ failedAt = "ksize")

C7_Witness ==
    /\ op \in ConvOps /\ ksLen # KOf(op) /\ cfgBias
    /\ pc = "exited" /\ failedAt = "ksize" /\ newVarCalls = 0

\* C8: when the weight allocation fails after the bias Handle was allocated,
\* the bias Handle is no longer allocated once the failure is surfaced, and
\* the failure reaches the caller as a result value instead of ending the
\* process.
C8_FailedConstructionIsClean ==
    (op \in ConvOps /\ cfgBias /\ failedAt = "weight")
        => ("bias" \notin params /\ outcome # "process_exit")

Widen(x) == [k \in 1..WideLimbs |-> IF k <= Len(x) THEN x[k] ELSE 0]

\* C9: for every rank r >= 1 the fan-in handed to the bound computation is
\* the mathematical (r-1)!, is never 0, and the bound is sqrt(1/(r-1)!).
C9_FanInIsFactorial ==
    (op \in KaimingOps /\ pc = "done") =>
        /\ Widen(fanIn) = exact
        /\ fanIn # Zero(U64Limbs)
        /\ ~bound.inf

\* C10: every element produced by randnInit is mean + stdev * z for the
\* standard-normal draw z.
C10_MeanPlusStdevTimesDraw ==
    (op \in RandnOps /\ pc = "done") => data = mean + stdev * z

====
